---- MODULE Spec2Model ----
(***************************************************************************)
(* A model of src/app.py, the Streamlit "AI Debate Trainer".               *)
(*                                                                         *)
(* Text is modelled as a sequence of lexical tokens.  An upstream response *)
(* is such a sequence; json.loads / model_validate_json are a real parser  *)
(* over it, and extract_json is the regular-expression search the code     *)
(* performs, so extraction, parsing and validation can each fail.          *)
(*   "{" "}" "[" "]" ","   the JSON punctuation                            *)
(*   a member of KeyTok     a quoted object key followed by its colon      *)
(*   a member of StrTok     a JSON string literal (holding no brace)       *)
(*   a member of NumTok     a JSON integer literal                         *)
(*   "null"                 the JSON null                                  *)
(*   "w"                    a word of commentary (no brace, not JSON)      *)
(***************************************************************************)
EXTENDS Integers, Sequences, FiniteSets, TLC

\* ------------------------------------------------------------- tokens ----
KeyTok ==
  {"arguments", "argument_title", "argument", "argument_description",
   "supporting_evidence", "evidence_hint", "famous_quote",
   "evidence_description", "source_or_instance",
   "rebuttals", "original_argument_title", "counter_argument", "counter_evidence",
   "Logic", "Evidence", "Relevance", "Style", "Suggestion"}

\* "s0" is the empty string literal; the others are distinct non-empty strings.
StrTok == {"s0", "sT", "sA", "sD", "sH", "sQ", "sE", "sS", "sC", "sG"}

EmptyStr == "s0"

NumTok == {"5", "6", "7", "9", "11"}

NumOf(c) ==
  CASE c = "5" -> 5 [] c = "6" -> 6 [] c = "7" -> 7 [] c = "9" -> 9 [] c = "11" -> 11

\* ------------------------------------------------- JSON values (json) ----
JStr(s) == [ty |-> "str", s |-> s]
JNum(n) == [ty |-> "num", n |-> n]
JNull   == [ty |-> "null"]
JObj(m) == [ty |-> "obj", m |-> m]
JArr(a) == [ty |-> "arr", a |-> a]

PFail == [ok |-> FALSE, v |-> JNull, nx |-> 0]
POk(v, nx) == [ok |-> TRUE, v |-> v, nx |-> nx]

RECURSIVE ParseValue(_, _)
RECURSIVE ParseMembers(_, _, _, _)
RECURSIVE ParseElems(_, _, _, _)

\* One JSON value starting at token i of t.
ParseValue(t, i) ==
  IF i > Len(t) THEN PFail
  ELSE LET c == t[i] IN
    IF c \in StrTok THEN POk(JStr(c), i + 1)
    ELSE IF c \in NumTok THEN POk(JNum(NumOf(c)), i + 1)
    ELSE IF c = "null" THEN POk(JNull, i + 1)
    ELSE IF c = "{" THEN ParseMembers(t, i + 1, <<>>, TRUE)
    ELSE IF c = "[" THEN ParseElems(t, i + 1, <<>>, TRUE)
    ELSE PFail

\* The members of an object after its "{" (first: none read yet).
ParseMembers(t, i, acc, first) ==
  IF i > Len(t) THEN PFail
  ELSE IF first /\ t[i] = "}" THEN POk(JObj(acc), i + 1)
  ELSE IF t[i] \notin KeyTok THEN PFail
  ELSE LET r == ParseValue(t, i + 1) IN
    IF ~r.ok \/ r.nx > Len(t) THEN PFail
    ELSE LET acc2 == Append(acc, [k |-> t[i], v |-> r.v]) IN
      IF t[r.nx] = "}" THEN POk(JObj(acc2), r.nx + 1)
      ELSE IF t[r.nx] = "," THEN ParseMembers(t, r.nx + 1, acc2, FALSE)
      ELSE PFail

\* The elements of an array after its "[".
ParseElems(t, i, acc, first) ==
  IF i > Len(t) THEN PFail
  ELSE IF first /\ t[i] = "]" THEN POk(JArr(acc), i + 1)
  ELSE LET r == ParseValue(t, i) IN
    IF ~r.ok \/ r.nx > Len(t) THEN PFail
    ELSE LET acc2 == Append(acc, r.v) IN
      IF t[r.nx] = "]" THEN POk(JArr(acc2), r.nx + 1)
      ELSE IF t[r.nx] = "," THEN ParseElems(t, r.nx + 1, acc2, FALSE)
      ELSE PFail

\* json.loads: the whole text is exactly one JSON value, else it raises.
json_loads(t) ==
  LET r == ParseValue(t, 1) IN
  IF r.ok /\ r.nx = Len(t) + 1 THEN [ok |-> TRUE, v |-> r.v]
  ELSE [ok |-> FALSE, v |-> JNull]

\* dict lookup: a key is present; its value (the last occurrence wins).
HasKey(o, k) == \E i \in 1..Len(o.m) : o.m[i].k = k
GetKey(o, k) ==
  LET i == CHOOSE j \in 1..Len(o.m) :
             o.m[j].k = k /\ \A l \in (j + 1)..Len(o.m) : o.m[l].k # k
  IN o.m[i].v

\* ------------------------------------------------ Optional[...] values ----
None == <<>>
Some(v) == <<v>>

VFail == [ok |-> FALSE, val |-> <<>>]
VOk(v) == [ok |-> TRUE, val |-> v]

\* ----------------------------------------------------- pydantic models ----
\* A field annotated "str": the key is present and holds a JSON string.
StrField(o, k) == HasKey(o, k) /\ GetKey(o, k).ty = "str"

\* A field annotated Optional[str] with no default: pydantic 2 (the release
\* that has model_validate_json and model_dump) requires the key and accepts
\* a string or null for it.
OptStrField(o, k) == HasKey(o, k) /\ GetKey(o, k).ty \in {"str", "null"}
OptStrVal(o, k) == IF GetKey(o, k).ty = "str" THEN Some(GetKey(o, k).s) ELSE None

\* class Evidence
validate_Evidence(v) ==
  IF /\ v.ty = "obj"
     /\ StrField(v, "evidence_description")
     /\ StrField(v, "source_or_instance")
  THEN VOk([evidence_description |-> GetKey(v, "evidence_description").s,
            source_or_instance   |-> GetKey(v, "source_or_instance").s])
  ELSE VFail

\* supporting_evidence: Optional[List[Evidence]], no default.
EvidenceListField(o) ==
  /\ HasKey(o, "supporting_evidence")
  /\ LET e == GetKey(o, "supporting_evidence") IN
       \/ e.ty = "null"
       \/ e.ty = "arr" /\ \A i \in 1..Len(e.a) : validate_Evidence(e.a[i]).ok
EvidenceListVal(o) ==
  LET e == GetKey(o, "supporting_evidence") IN
  IF e.ty = "null" THEN None
  ELSE Some([i \in 1..Len(e.a) |-> validate_Evidence(e.a[i]).val])

\* famous_quote: Optional[str] = "": the only field with a default.
QuoteField(o) == HasKey(o, "famous_quote") => GetKey(o, "famous_quote").ty \in {"str", "null"}
QuoteVal(o) ==
  IF HasKey(o, "famous_quote") THEN OptStrVal(o, "famous_quote") ELSE Some(EmptyStr)

\* The fields of Argument that are declared without a default.
ArgumentRequired ==
  {"argument_title", "argument", "argument_description", "evidence_hint"}

\* class Argument
validate_Argument(v) ==
  IF /\ v.ty = "obj"
     /\ \A k \in ArgumentRequired : OptStrField(v, k)
     /\ EvidenceListField(v)
     /\ QuoteField(v)
  THEN VOk([argument_title       |-> OptStrVal(v, "argument_title"),
            argument             |-> OptStrVal(v, "argument"),
            argument_description |-> OptStrVal(v, "argument_description"),
            supporting_evidence  |-> EvidenceListVal(v),
            evidence_hint        |-> OptStrVal(v, "evidence_hint"),
            famous_quote         |-> QuoteVal(v)])
  ELSE VFail

\* class DebateArguments and class SimpleArgList: arguments: List[Argument]
validate_ArgList(v) ==
  IF /\ v.ty = "obj"
     /\ HasKey(v, "arguments")
     /\ GetKey(v, "arguments").ty = "arr"
     /\ LET a == GetKey(v, "arguments").a IN
          \A i \in 1..Len(a) : validate_Argument(a[i]).ok
  THEN LET a == GetKey(v, "arguments").a IN
       VOk([arguments |-> [i \in 1..Len(a) |-> validate_Argument(a[i]).val]])
  ELSE VFail

\* class Rebuttal
validate_Rebuttal(v) ==
  IF /\ v.ty = "obj"
     /\ StrField(v, "original_argument_title")
     /\ StrField(v, "counter_argument")
     /\ HasKey(v, "counter_evidence")
     /\ validate_Evidence(GetKey(v, "counter_evidence")).ok
  THEN VOk([original_argument_title |-> GetKey(v, "original_argument_title").s,
            counter_argument        |-> GetKey(v, "counter_argument").s,
            counter_evidence        |-> validate_Evidence(GetKey(v, "counter_evidence")).val])
  ELSE VFail

\* class Rebuttals: rebuttals: List[Rebuttal]
validate_Rebuttals(v) ==
  IF /\ v.ty = "obj"
     /\ HasKey(v, "rebuttals")
     /\ GetKey(v, "rebuttals").ty = "arr"
     /\ LET a == GetKey(v, "rebuttals").a IN
          \A i \in 1..Len(a) : validate_Rebuttal(a[i]).ok
  THEN LET a == GetKey(v, "rebuttals").a IN
       VOk([rebuttals |-> [i \in 1..Len(a) |-> validate_Rebuttal(a[i]).val]])
  ELSE VFail

\* X.model_validate_json(text): parse, then validate; not ok stands for the
\* exception either step raises.
ArgList_model_validate_json(t) ==
  LET j == json_loads(t) IN IF j.ok THEN validate_ArgList(j.v) ELSE VFail

Rebuttals_model_validate_json(t) ==
  LET j == json_loads(t) IN IF j.ok THEN validate_Rebuttals(j.v) ELSE VFail

\* ------------------------------------ json.dumps of Argument.model_dump ----
DumpOptStr(o) == IF o = None THEN "null" ELSE o[1]

DumpEvidence(e) ==
  <<"{", "evidence_description", e.evidence_description, ",",
    "source_or_instance", e.source_or_instance, "}">>

RECURSIVE DumpEvidenceSeq(_)
DumpEvidenceSeq(es) ==
  IF Len(es) = 0 THEN <<>>
  ELSE IF Len(es) = 1 THEN DumpEvidence(es[1])
  ELSE DumpEvidence(es[1]) \o <<",">> \o DumpEvidenceSeq(Tail(es))

DumpEvidenceList(o) ==
  IF o = None THEN <<"null">> ELSE <<"[">> \o DumpEvidenceSeq(o[1]) \o <<"]">>

\* json.dumps(arg.model_dump()): every declared field, in declaration order.
DumpArgument(a) ==
  <<"{", "argument_title", DumpOptStr(a.argument_title), ",",
    "argument", DumpOptStr(a.argument), ",",
    "argument_description", DumpOptStr(a.argument_description), ",",
    "supporting_evidence">> \o DumpEvidenceList(a.supporting_evidence) \o
  <<",", "evidence_hint", DumpOptStr(a.evidence_hint), ",",
    "famous_quote", DumpOptStr(a.famous_quote), "}">>

\* json.dumps({"arguments": [arg.model_dump()]})
DumpSingleArg(a) == <<"{", "arguments", "[">> \o DumpArgument(a) \o <<"]", "}">>

\* ------------------------------------------------------- extract_json ----
Positions(t, c) == {i \in 1..Len(t) : t[i] = c}
MinOf(S) == CHOOSE x \in S : \A y \in S : x <= y
MaxOf(S) == CHOOSE x \in S : \A y \in S : x >= y

NoMatch == [raised |-> FALSE, found |-> FALSE, text |-> <<>>]

\* re.search(r"\{(?:[^{}]|(?R))*\}", raw): the re module has no (?R) group,
\* so compiling the pattern raises re.error on every input.
re_search_recursive(raw) == [raised |-> TRUE, found |-> FALSE, text |-> <<>>]

\* re.search(r"\{.*\}", raw, re.DOTALL): from the first "{" that has a "}"
\* after it, greedily to the last "}" of the text.
re_search_greedy(raw) ==
  LET opens == Positions(raw, "{")
      closes == Positions(raw, "}")
  IN IF opens # {} /\ closes # {} /\ MinOf(opens) < MaxOf(closes)
     THEN [raised |-> FALSE, found |-> TRUE,
           text |-> SubSeq(raw, MinOf(opens), MaxOf(closes))]
     ELSE NoMatch

\* extract_json(raw_text): the matched substring, or None.
extract_json(raw) ==
  LET m1 == re_search_recursive(raw) IN
  IF ~m1.raised /\ m1.found THEN Some(m1.text)
  ELSE LET m2 == re_search_greedy(raw) IN
       IF ~m2.raised /\ m2.found THEN Some(m2.text) ELSE None

\* ------------------------------------------------------------- bounds ----
\* Upstream requests one behaviour may issue.
MaxCalls == 2

\* ---------------------------------------------------------- UI inputs ----
Topics == {"t1", "t2"}
Stances == {"in favour", "against"}
\* Two of the keys of PROMPT_STYLES.
Styles == {"wsdc", "policy"}
\* What the user typed in the rebuttal text area ("" is an empty area).
RebuttalTexts == {"", "r1"}

\* ------------------------------------------------- upstream responses ----
W == <<"w">>

EvA == <<"{", "evidence_description", "sE", ",", "source_or_instance", "sS", "}">>

ArgFull(title, body) ==
  <<"{", "argument_title", title, ",", "argument", body, ",",
    "argument_description", "sD", ",", "supporting_evidence", "[">> \o EvA \o
  <<"]", ",", "evidence_hint", "sH", ",", "famous_quote", "sQ", "}">>

\* The element the system prompt of generate_arguments asks for.
ArgAsPromptedMine ==
  <<"{", "argument_title", "sT", ",", "argument_description", "sD", ",",
    "supporting_evidence", "[">> \o EvA \o <<"]", ",", "famous_quote", "sQ", "}">>

\* The element the system prompt of generate_opponents asks for.
ArgAsPromptedOpp ==
  <<"{", "argument", "sA", ",", "evidence_hint", "sH", ",", "famous_quote", "sQ", "}">>

ArgsDoc(elems) == <<"{", "arguments", "[">> \o elems \o <<"]", "}">>

ArgumentsResponses ==
  { ArgsDoc(ArgFull("sT", "sA") \o <<",">> \o ArgFull("sG", "sC")),
    W \o ArgsDoc(ArgFull("sT", "sA") \o <<",">> \o ArgFull("sG", "sC")) \o W,
    ArgsDoc(ArgAsPromptedMine),
    W \o W,
    W \o ArgsDoc(ArgFull("sT", "sA")) \o W \o <<"{", "w", "}">> }

OpponentsResponses ==
  { W \o ArgsDoc(ArgFull("sT", "sA")) \o W,
    ArgsDoc(ArgAsPromptedOpp),
    W \o W }

RebObj(title) ==
  <<"{", "original_argument_title", title, ",", "counter_argument", "sC", ",",
    "counter_evidence">> \o EvA \o <<"}">>

RebuttalsResponses ==
  { RebObj("sA"),
    W \o RebObj("sA") \o W,
    RebObj("sA") \o <<",">> \o RebObj("sG") }

ScoreObj(logic) ==
  <<"{", "Logic", logic, ",", "Evidence", "5", ",", "Relevance", "9", ",",
    "Style", "6", ",", "Suggestion", "sG", "}">>

ScoreResponses ==
  { ScoreObj("7"),
    W \o ScoreObj("7") \o W,
    ScoreObj("11"),
    ScoreObj("sT"),
    <<"{", "Logic", "7", "}">>,
    <<"7">> }

\* ------------------------------------------------- operation results ----
\* What one execution of a function body did: how it ended ("value": it
\* returned something other than None, "none": it returned None, "raised":
\* an exception left it), the value, the st.error / st.text / st.warning
\* elements it emitted (shows: the text printed verbatim in the element),
\* and the upstream requests it issued.
Msg(kind, label, shows) == [kind |-> kind, label |-> label, shows |-> shows]

Returned(v, msgs, n) == [outcome |-> "value", ret |-> Some(v), msgs |-> msgs, ncalls |-> n]
ReturnedNone(msgs, n) == [outcome |-> "none", ret |-> None, msgs |-> msgs, ncalls |-> n]
Raised(n) == [outcome |-> "raised", ret |-> None, msgs |-> <<>>, ncalls |-> n]

\* generate_arguments, given the text the one upstream request answered.
generate_arguments(raw) ==
  LET direct == ArgList_model_validate_json(raw) IN
  IF direct.ok THEN Returned(direct.val, <<>>, 1)
  ELSE LET json_str == extract_json(raw) IN
    IF json_str # None
    THEN LET again == ArgList_model_validate_json(json_str[1]) IN
         IF again.ok THEN Returned(again.val, <<>>, 1) ELSE Raised(1)
    ELSE ReturnedNone(<<Msg("error", "Failed to parse arguments JSON.", <<>>),
                        Msg("text", "", raw)>>, 1)

\* generate_opponents, given the text the one upstream request answered.
generate_opponents(raw_output) ==
  LET json_str == extract_json(raw_output) IN
  IF json_str = None
  THEN ReturnedNone(<<Msg("error", "Could not find JSON in model output for opponents.", <<>>),
                      Msg("text", "", raw_output)>>, 1)
  ELSE LET v == ArgList_model_validate_json(json_str[1]) IN
       IF v.ok THEN Returned(v.val, <<>>, 1)
       ELSE ReturnedNone(<<Msg("error", "Error validating opponents JSON", <<>>),
                           Msg("text", "", json_str[1])>>, 1)

\* The loop of generate_rebuttals over the arguments from position i on:
\* one request per argument, raws[i] being the answer to the i-th.
RECURSIVE RebuttalLoop(_, _, _, _, _)
RebuttalLoop(args, raws, i, rebutted, msgs) ==
  IF i > Len(args) THEN Returned([rebuttals |-> rebutted], msgs, Len(args))
  ELSE LET raw == raws[i]
           parsed == Rebuttals_model_validate_json(
                       <<"{", "rebuttals", "[">> \o raw \o <<"]", "}">>)
       IN IF parsed.ok /\ Len(parsed.val.rebuttals) >= 1
          THEN RebuttalLoop(args, raws, i + 1,
                            Append(rebutted, parsed.val.rebuttals[1]), msgs)
          ELSE RebuttalLoop(args, raws, i + 1, rebutted,
                            Append(msgs, Msg("warning", "Could not parse rebuttal", raw)))

\* generate_rebuttals, given the answers of its upstream requests in order.
generate_rebuttals(opponent_json, raws) ==
  LET parsed_opp == ArgList_model_validate_json(opponent_json) IN
  IF ~parsed_opp.ok
  THEN Returned([rebuttals |-> <<>>],
                <<Msg("error", "Opponent JSON invalid", opponent_json)>>, 0)
  ELSE RebuttalLoop(parsed_opp.val.arguments, raws, 1, <<>>, <<>>)

\* The requests generate_rebuttals issues for opponent_json.
RebuttalRequests(opponent_json) ==
  LET parsed_opp == ArgList_model_validate_json(opponent_json) IN
  IF parsed_opp.ok THEN Len(parsed_opp.val.arguments) ELSE 0

\* score_rebuttal, given the text the one upstream request answered.
score_rebuttal(raw) ==
  LET j == json_loads(raw) IN
  IF ~j.ok
  THEN ReturnedNone(<<Msg("error", "Error parsing scoring JSON", <<>>),
                      Msg("text", "", raw)>>, 1)
  ELSE IF j.v.ty = "null" THEN ReturnedNone(<<>>, 1)
  ELSE Returned(j.v, <<>>, 1)

\* The result of each function for each answer the upstream may give.
ArgumentsResult == [raw \in ArgumentsResponses |-> generate_arguments(raw)]
OpponentsResult == [raw \in OpponentsResponses |-> generate_opponents(raw)]
ScoreResult == [raw \in ScoreResponses |-> score_rebuttal(raw)]

\* bool(x) of a value json.loads returned.
Truthy(v) ==
  CASE v.ty = "obj" -> Len(v.m) > 0
    [] v.ty = "arr" -> Len(v.a) > 0
    [] v.ty = "num" -> v.n # 0
    [] v.ty = "str" -> v.s # EmptyStr
    [] OTHER -> FALSE

\* -------------------------------------------------------------- state ----
VARIABLES
  secrets_has_key,  \* "openai_api_key" in st.secrets
  session_state,    \* st.session_state: the three slots of the script
  cache,            \* the st.cache_data memo of each decorated function
  calls,            \* upstream requests issued so far
  last,             \* what the most recent script run did
  ex                \* extract_json applied on its own: text, done, result

vars == <<secrets_has_key, session_state, cache, calls, last, ex>>

\* A slot of st.session_state: absent, or present holding None or a value.
Absent == [present |-> FALSE, v |-> None]
Holding(x) == [present |-> TRUE, v |-> x]

\* if 'k' not in st.session_state: st.session_state.k = None  (three times)
InitSlot(slot) == IF slot.present THEN slot ELSE Holding(None)
InitSlots(ss) ==
  [your_arguments     |-> InitSlot(ss.your_arguments),
   opponent_arguments |-> InitSlot(ss.opponent_arguments),
   opponent_rebuttals |-> InitSlot(ss.opponent_rebuttals)]

\* st.cache_data: the entry stored under a key, if any.
CacheHit(memo, key) == \E e \in memo : e.key = key
CacheGet(memo, key) == CHOOSE e \in memo : e.key = key
\* CacheStore with failures left out of the memo.
CacheStore_SkipNone(memo, key, r) ==
  IF r.outcome # "value" THEN memo
  ELSE memo \cup {[key |-> key, outcome |-> r.outcome, ret |-> r.ret, msgs |-> r.msgs]}

\* st.cache_data stores whatever the function returned, None included, with
\* the elements it emitted; a call that raised stores nothing.
CacheStore(memo, key, r) ==
  IF r.outcome = "raised" THEN memo
  ELSE memo \cup {[key |-> key, outcome |-> r.outcome, ret |-> r.ret, msgs |-> r.msgs]}
\* What a cache hit gives the caller: the stored value, the stored elements
\* replayed, and no execution of the body.
Replay(e) == [outcome |-> e.outcome, ret |-> e.ret, msgs |-> e.msgs, ncalls |-> 0]

\* The credential check without its st.stop().
Stops_Never(has_key) == FALSE

\* if "openai_api_key" not in st.secrets: st.error(...); st.stop()
Stops(has_key) == ~has_key

RunRecord(op, key, raws, r, ui) ==
  [op |-> op, key |-> key, raws |-> raws, ncalls |-> r.ncalls,
   outcome |-> r.outcome, ret |-> r.ret, msgs |-> r.msgs, ui |-> ui]

NoResult == [outcome |-> "notcalled", ret |-> None, msgs |-> <<>>, ncalls |-> 0]

Init ==
  /\ secrets_has_key \in BOOLEAN
  /\ session_state = [your_arguments |-> Absent, opponent_arguments |-> Absent,
                      opponent_rebuttals |-> Absent]
  /\ cache = [arguments |-> {}, opponents |-> {}, rebuttals |-> {}, score |-> {}]
  /\ calls = 0
  /\ last = RunRecord("none", <<>>, <<>>, NoResult, "silent")
  /\ ex = [text |-> <<>>, done |-> FALSE, result |-> None]

\* The secrets file is edited between two script runs.
SecretsChange ==
  /\ secrets_has_key' = ~secrets_has_key
  /\ UNCHANGED <<session_state, cache, calls, last, ex>>

\* A script run without the credential: the error, then st.stop().
RunMissingKey ==
  /\ Stops(secrets_has_key)
  /\ last' = RunRecord("stopped", <<>>, <<>>,
                       [NoResult EXCEPT !.msgs = <<Msg("error", "OpenAI API key not found", <<>>)>>],
                       "silent")
  /\ UNCHANGED <<secrets_has_key, session_state, cache, calls, ex>>

\* A script run in which no button is pressed (a widget changed, a reload).
RunIdle ==
  /\ ~Stops(secrets_has_key)
  /\ session_state' = InitSlots(session_state)
  /\ last' = RunRecord("idle", <<>>, <<>>, NoResult, "silent")
  /\ UNCHANGED <<secrets_has_key, cache, calls, ex>>

\* The handler of "Generate My Arguments", given the function's result.
AfterGenerateMyArguments(ss, r) ==
  IF r.outcome = "raised" THEN InitSlots(ss)
  ELSE [InitSlots(ss) EXCEPT !.your_arguments = Holding(r.ret)]

\* A script run with "Generate My Arguments" pressed.
RunGenerateMyArguments ==
  /\ ~Stops(secrets_has_key)
  /\ \E topic \in Topics, stance \in Stances, style \in Styles :
       LET key == <<topic, stance, style>> IN
       \/ /\ CacheHit(cache.arguments, key)
          /\ LET r == Replay(CacheGet(cache.arguments, key)) IN
               /\ session_state' = AfterGenerateMyArguments(session_state, r)
               /\ last' = RunRecord("arguments", key, <<>>, r,
                                    IF r.ret # None THEN "shown" ELSE "silent")
          /\ UNCHANGED <<cache, calls>>
       \/ /\ ~CacheHit(cache.arguments, key)
          /\ calls < MaxCalls
          /\ \E raw \in ArgumentsResponses :
               LET r == ArgumentsResult[raw] IN
               /\ cache' = [cache EXCEPT !.arguments = CacheStore(@, key, r)]
               /\ calls' = calls + r.ncalls
               /\ session_state' = AfterGenerateMyArguments(session_state, r)
               /\ last' = RunRecord("arguments", key, <<raw>>, r,
                                    IF r.outcome = "raised" THEN "exception"
                                    ELSE IF r.ret # None THEN "shown" ELSE "silent")
  /\ UNCHANGED <<secrets_has_key, ex>>

\* The handler of "Simulate Opponent Arguments", given the function's result.
AfterSimulateOpponent(ss, r) ==
  IF r.ret # None
  THEN [InitSlots(ss) EXCEPT !.opponent_arguments = Holding(r.ret),
                             !.opponent_rebuttals = Holding(None)]
  ELSE InitSlots(ss)

\* A script run with "Simulate Opponent Arguments" pressed.
RunSimulateOpponent ==
  /\ ~Stops(secrets_has_key)
  /\ \E topic \in Topics, style \in Styles :
       LET key == <<topic, style>> IN
       \/ /\ CacheHit(cache.opponents, key)
          /\ LET r == Replay(CacheGet(cache.opponents, key)) IN
               /\ session_state' = AfterSimulateOpponent(session_state, r)
               /\ last' = RunRecord("opponents", key, <<>>, r,
                                    IF r.ret # None THEN "shown" ELSE "silent")
          /\ UNCHANGED <<cache, calls>>
       \/ /\ ~CacheHit(cache.opponents, key)
          /\ calls < MaxCalls
          /\ \E raw \in OpponentsResponses :
               LET r == OpponentsResult[raw] IN
               /\ cache' = [cache EXCEPT !.opponents = CacheStore(@, key, r)]
               /\ calls' = calls + r.ncalls
               /\ session_state' = AfterSimulateOpponent(session_state, r)
               /\ last' = RunRecord("opponents", key, <<raw>>, r,
                                    IF r.ret # None THEN "shown" ELSE "silent")
  /\ UNCHANGED <<secrets_has_key, ex>>

\* The opponent arguments the page lists, each with its two buttons.
ListedArguments(ss) ==
  IF ss.opponent_arguments.present /\ ss.opponent_arguments.v # None
  THEN ss.opponent_arguments.v[1].arguments ELSE <<>>

\* arg.argument as an argument of score_rebuttal (None when the field is null).
TitleOf(arg) == IF arg.argument = None THEN "None" ELSE arg.argument[1]

\* if score: ... for k, v in score.items(): a truthy value that is no dict
\* has no items().
ScoreShown(r) ==
  IF r.ret = None \/ ~Truthy(r.ret[1]) THEN "silent"
  ELSE IF r.ret[1].ty = "obj" THEN "shown" ELSE "exception"

\* A script run with "Score My Rebuttal i" pressed.
RunScoreMyRebuttal ==
  /\ ~Stops(secrets_has_key)
  /\ \E idx \in 1..Len(ListedArguments(session_state)),
        rebuttal_text \in RebuttalTexts, topic \in Topics, style \in Styles :
       LET arg == ListedArguments(session_state)[idx]
           key == <<rebuttal_text, TitleOf(arg), topic, style>>
       IN
       \/ /\ rebuttal_text = ""
          /\ last' = RunRecord("score_empty", <<>>, <<>>,
                               [NoResult EXCEPT !.msgs =
                                  <<Msg("warning", "Please enter your rebuttal to score.", <<>>)>>],
                               "silent")
          /\ UNCHANGED <<cache, calls>>
       \/ /\ rebuttal_text # ""
          /\ CacheHit(cache.score, key)
          /\ LET r == Replay(CacheGet(cache.score, key)) IN
               last' = RunRecord("score", key, <<>>, r, ScoreShown(r))
          /\ UNCHANGED <<cache, calls>>
       \/ /\ rebuttal_text # ""
          /\ ~CacheHit(cache.score, key)
          /\ calls < MaxCalls
          /\ \E raw \in ScoreResponses :
               LET r == ScoreResult[raw] IN
               /\ cache' = [cache EXCEPT !.score = CacheStore(@, key, r)]
               /\ calls' = calls + r.ncalls
               /\ last' = RunRecord("score", key, <<raw>>, r, ScoreShown(r))
  /\ session_state' = InitSlots(session_state)
  /\ UNCHANGED <<secrets_has_key, ex>>

\* A script run with "Reveal AI Rebuttal i" pressed.
RunRevealAIRebuttal ==
  /\ ~Stops(secrets_has_key)
  /\ \E idx \in 1..Len(ListedArguments(session_state)) :
       LET arg == ListedArguments(session_state)[idx]
           single_arg_json == DumpSingleArg(arg)
           key == single_arg_json
       IN
       \/ /\ CacheHit(cache.rebuttals, key)
          /\ LET r == Replay(CacheGet(cache.rebuttals, key)) IN
               last' = RunRecord("rebuttals", key, <<>>, r,
                                 IF Len(r.ret[1].rebuttals) > 0 THEN "shown" ELSE "silent")
          /\ UNCHANGED <<cache, calls>>
       \/ /\ ~CacheHit(cache.rebuttals, key)
          /\ calls + RebuttalRequests(single_arg_json) <= MaxCalls
          /\ \E raws \in [1..RebuttalRequests(single_arg_json) -> RebuttalsResponses] :
               LET r == generate_rebuttals(single_arg_json, raws) IN
               /\ cache' = [cache EXCEPT !.rebuttals = CacheStore(@, key, r)]
               /\ calls' = calls + r.ncalls
               /\ last' = RunRecord("rebuttals", key, raws, r,
                                    IF Len(r.ret[1].rebuttals) > 0 THEN "shown" ELSE "silent")
  /\ session_state' = InitSlots(session_state)
  /\ UNCHANGED <<secrets_has_key, ex>>

Next ==
  \/ SecretsChange
  \/ RunMissingKey
  \/ RunIdle
  \/ RunGenerateMyArguments
  \/ RunSimulateOpponent
  \/ RunScoreMyRebuttal
  \/ RunRevealAIRebuttal

Spec == Init /\ [][Next]_vars

\* ------------------------------------------- extract_json on its own ----
MaxTextLen == 4
TextAlphabet == {"{", "}", "[", "]", "w"}
Texts == UNION {[1..n -> TextAlphabet] : n \in 0..MaxTextLen}

InitExtract ==
  /\ secrets_has_key = TRUE
  /\ session_state = [your_arguments |-> Absent, opponent_arguments |-> Absent,
                      opponent_rebuttals |-> Absent]
  /\ cache = [arguments |-> {}, opponents |-> {}, rebuttals |-> {}, score |-> {}]
  /\ calls = 0
  /\ last = RunRecord("none", <<>>, <<>>, NoResult, "silent")
  /\ ex \in {[text |-> t, done |-> FALSE, result |-> None] : t \in Texts}

Extract ==
  /\ ~ex.done
  /\ ex' = [ex EXCEPT !.done = TRUE, !.result = extract_json(ex.text)]
  /\ UNCHANGED <<secrets_has_key, session_state, cache, calls, last>>

SpecExtract == InitExtract /\ [][Extract]_vars

\* ------------------------------------------------------------- claims ----
GenOps == {"arguments", "opponents", "rebuttals", "score"}

\* A step that is a script run (every step but an edit of the secrets).
IsRunStep == secrets_has_key' = secrets_has_key

\* The last run executed a function body, which asked the upstream.
FreshRun == last.op \in GenOps /\ last.ncalls >= 1

\* The caller got a usable value.
Succeeded(l) ==
  /\ l.outcome = "value"
  /\ l.op = "rebuttals" => Len(l.ret[1].rebuttals) > 0

\* The caller got the function's failure value: None, or no rebuttal at all.
FailureReturned(l) ==
  \/ l.outcome = "none"
  \/ l.op = "rebuttals" /\ l.outcome = "value" /\ Len(l.ret[1].rebuttals) = 0

\* A Score: four integer ratings in 1..10 and a suggestion string.
ScoreCategories == {"Logic", "Evidence", "Relevance", "Style"}
WellFormedScore(v) ==
  /\ v.ty = "obj"
  /\ \A k \in ScoreCategories :
       /\ HasKey(v, k)
       /\ GetKey(v, k).ty = "num"
       /\ GetKey(v, k).n \in 1..10
  /\ StrField(v, "Suggestion")

\* The text without the commentary before and after it.
RECURSIVE StripLeft(_)
StripLeft(t) == IF Len(t) > 0 /\ t[1] = "w" THEN StripLeft(Tail(t)) ELSE t
RECURSIVE StripRight(_)
StripRight(t) ==
  IF Len(t) > 0 /\ t[Len(t)] = "w" THEN StripRight(SubSeq(t, 1, Len(t) - 1)) ELSE t
StripCommentary(t) == StripRight(StripLeft(t))

\* Parsing a JSON text directly against the schema of an operation.
DirectValue(op, doc) ==
  LET j == json_loads(doc) IN
  IF ~j.ok THEN VFail
  ELSE IF op \in {"arguments", "opponents"} THEN validate_ArgList(j.v)
  ELSE IF op = "rebuttals"
       THEN (IF validate_Rebuttal(j.v).ok
             THEN VOk([rebuttals |-> <<validate_Rebuttal(j.v).val>>]) ELSE VFail)
  ELSE (IF WellFormedScore(j.v) THEN VOk(j.v) ELSE VFail)

\* C1: bounded retry: an operation whose upstream response does not validate
\* asks again, and fails only after exactly three upstream requests.
C1_BoundedRetry ==
  (FreshRun /\ ~Succeeded(last)) => last.ncalls = 3

\* C2: a score the UI treats as a success (a truthy result) holds the four
\* ratings, each an integer in 1..10, and a suggestion string.
C2_ScoreWellFormed ==
  (last.op = "score" /\ last.ret # None /\ Truthy(last.ret[1]))
    => WellFormedScore(last.ret[1])

\* C3: a response that is a JSON value matching the operation's schema with
\* commentary around it makes the operation succeed with the value parsing
\* the embedded JSON directly gives.
C3_WrappedEqualsDirect ==
  (FreshRun /\ DirectValue(last.op, StripCommentary(last.raws[1])).ok)
    => /\ last.outcome = "value"
       /\ last.ret = Some(DirectValue(last.op, StripCommentary(last.raws[1])).val)

\* C4: no error is swallowed: an operation that does not accept the upstream
\* response returns a failure to its caller and emits an element showing the
\* raw response text.
C4_FailureReported ==
  (FreshRun /\ ~Succeeded(last))
    => /\ FailureReturned(last)
       /\ \E i \in 1..Len(last.msgs) : last.msgs[i].shows = last.raws[1]

\* C5: a failed operation is retryable: pressing the same button again with
\* the same inputs after the operation returned None issues a new request.
C5_FailedIsRetryable ==
  [][(/\ IsRunStep
      /\ last.op \in GenOps /\ last.outcome = "none"
      /\ last'.op = last.op /\ last'.key = last.key)
       => last'.ncalls >= 1]_vars

\* The memo of an operation.
MemoOf(c, op) ==
  CASE op = "arguments" -> c.arguments
    [] op = "opponents" -> c.opponents
    [] op = "rebuttals" -> c.rebuttals
    [] op = "score" -> c.score

C7_MissingKeyHalts ==
  [][~secrets_has_key
       => /\ calls' = calls
          /\ session_state' = session_state
          /\ cache' = cache
          /\ IsRunStep => last'.op = "stopped"]_vars

\* A run stopped for the missing credential in a session that holds results.
C7_Witness ==
  /\ ~secrets_has_key
  /\ last.op = "stopped"
  /\ session_state.opponent_arguments.v # None
  /\ calls > 0

\* The fields the prompt of each operation asks for in an argument.
PromptFields(op) ==
  IF op = "opponents" THEN {"argument", "evidence_hint", "famous_quote"}
  ELSE {"argument_title", "argument_description", "supporting_evidence", "famous_quote"}

KeysOf(o) == {o.m[i].k : i \in 1..Len(o.m)}

\* A response whose argument elements carry exactly the prompted fields.
PromptShaped(op, raw) ==
  LET j == json_loads(raw) IN
  /\ j.ok /\ j.v.ty = "obj" /\ HasKey(j.v, "arguments")
  /\ GetKey(j.v, "arguments").ty = "arr"
  /\ LET a == GetKey(j.v, "arguments").a IN
       /\ Len(a) > 0
       /\ \A i \in 1..Len(a) :
            /\ a[i].ty = "obj"
            /\ KeysOf(a[i]) = PromptFields(op)
            /\ \A k \in KeysOf(a[i]) \ {"supporting_evidence"} : GetKey(a[i], k).ty = "str"
            /\ "supporting_evidence" \in KeysOf(a[i]) =>
                 LET e == GetKey(a[i], "supporting_evidence") IN
                 e.ty = "arr" /\ \A n \in 1..Len(e.a) : validate_Evidence(e.a[n]).ok

\* C8: a response whose arguments carry exactly the fields the operation's
\* own prompt asks for validates as an Argument list.
C8_PromptShapeAccepted ==
  (FreshRun /\ last.op \in {"arguments", "opponents"} /\ PromptShaped(last.op, last.raws[1]))
    => Succeeded(last)

\* The closer of the bracket opened at the bottom of the stack, or 0.
Opener == {"{", "["}
CloserOf(c) == IF c = "{" THEN "}" ELSE "]"
RECURSIVE MatchScan(_, _, _)
MatchScan(t, j, stack) ==
  IF j > Len(t) THEN 0
  ELSE IF t[j] \in Opener THEN MatchScan(t, j + 1, <<t[j]>> \o stack)
  ELSE IF t[j] \in {"}", "]"}
       THEN (IF stack = <<>> \/ CloserOf(stack[1]) # t[j] THEN 0
             ELSE IF Len(stack) = 1 THEN j
             ELSE MatchScan(t, j + 1, Tail(stack)))
  ELSE MatchScan(t, j + 1, stack)

\* The first balanced object or array of a text, or None.
FirstBalanced(t) ==
  LET starts == {i \in 1..Len(t) : t[i] \in Opener /\ MatchScan(t, i, <<>>) # 0} IN
  IF starts = {} THEN None
  ELSE Some(SubSeq(t, MinOf(starts), MatchScan(t, MinOf(starts), <<>>)))

\* C9: extract_json returns the first balanced object or array of its input,
\* and None only when there is none.
C9_FirstBalanced ==
  ex.done => ex.result = FirstBalanced(ex.text)

\* C10: a failed run never destroys a stored result: a failed "Generate My
\* Arguments" leaves your_arguments, and a failed "Simulate Opponent
\* Arguments" leaves opponent_arguments and opponent_rebuttals, as they were.
C10_FailureKeepsSlots ==
  [][IsRunStep =>
       /\ (last'.op = "arguments" /\ last'.outcome # "value")
            => session_state'.your_arguments = InitSlot(session_state.your_arguments)
       /\ (last'.op = "opponents" /\ last'.outcome # "value")
            => /\ session_state'.opponent_arguments
                    = InitSlot(session_state.opponent_arguments)
               /\ session_state'.opponent_rebuttals
                    = InitSlot(session_state.opponent_rebuttals)]_vars

====
